---- MODULE Spec2Model ----
(***************************************************************************)
(* backman: a sidecar-indexed backup store.  The model follows main.go:    *)
(* the identifier allocator (closestMissing), the sidecar store            *)
(* (generateSidecar, readSidecars, DeleteAll), the orchestrator            *)
(* (makeBackup, restoreFrom, listBackups) and the archive codec            *)
(* (compressDir, decompressDir).                                           *)
(***************************************************************************)
EXTENDS Integers, Sequences, FiniteSets, TLC

VARIABLES
    cfgDir,     \* config.ArchiveDir, as loadConfig leaves it
    dirs,       \* the directories that exist
    sidecar,    \* sidecar[d][t]: content of the record file d/t.tar.zstd.json
    archive,    \* archive[d][t]: state of the archive file d/t.tar.zstd
    pc,         \* pc[p]: where invocation p stands
    loc,        \* loc[p]: the local variables and the output of invocation p
    cdPc,       \* codec harness: "src", "enc" after compressDir, "dec" after decompressDir
    cdSrc,      \* the source tree
    cdArch,     \* the entries of the archive
    cdPre,      \* the destination tree before decompressDir
    cdDst,      \* the destination tree
    cdErr,      \* "none", or the error decompressDir returned
    fltPc,      \* filter harness: "in" before listBackups filters, "out" after
    fltIn,      \* the records readSidecars handed to listBackups
    fltQuery,   \* the query argument
    fltOut,     \* the records listBackups prints
    allocPc,    \* allocator harness: "in" before the call, "out" after it
    allocIn,    \* the slice handed to closestMissing
    allocOut    \* the value closestMissing returned (0 before the call)

storeVars == <<cfgDir, dirs, sidecar, archive, pc, loc>>
fltVars == <<fltPc, fltIn, fltQuery, fltOut>>
allocVars == <<allocPc, allocIn, allocOut>>
cdVars == <<cdPc, cdSrc, cdArch, cdPre, cdDst, cdErr>>
harnessVars == <<cdVars, fltVars, allocVars>>
vars == <<cfgDir, dirs, sidecar, archive, pc, loc,
          cdPc, cdSrc, cdArch, cdPre, cdDst, cdErr,
          fltPc, fltIn, fltQuery, fltOut,
          allocPc, allocIn, allocOut>>

(***************************************************************************)
(* Bounds and program constants                                            *)
(***************************************************************************)
\* longest identifier list handed to the allocator harness
MaxLen == 4
\* number of distinct archive-naming tokens generateUUID can draw
MaxTokens == 2
\* latest clock reading time.Now() can return
MaxTime == 1
\* largest identifier a backup of the store model is given (the identifiers
\* climb by one with every delete-then-create, up to 65535)
MaxId == 2
\* longest content of a regular file of the codec harness
MaxBytes == 1
\* longest query handed to listBackups
MaxQuery == 2
\* most records handed to the filter harness
MaxRecs == 2
\* math.MaxUint16
MaxUint16 == 65535
\* number of values of a uint16
Uint16Mod == MaxUint16 + 1
\* identifiers the allocator harness draws from: both ends of the uint16 range
IdDomain == {0, 1, 2, 4, 5, 6, 65534, 65535}

(***************************************************************************)
(* Sequence helpers                                                        *)
(***************************************************************************)
Range(s) == {s[i] : i \in 1..Len(s)}

SeqsUpTo(S, n) == UNION {[1..k -> S] : k \in 0..n}

\* element i of a Go slice (0-based)
At(s, i) == s[i + 1]

\* uint16 conversion of an integer result
U16(x) == x % Uint16Mod

(***************************************************************************)
(* closestMissing (main.go 562-604)                                        *)
(***************************************************************************)
RECURSIVE InsertAsc(_, _)
InsertAsc(x, s) ==
    IF s = <<>> THEN <<x>>
    ELSE IF x < Head(s) THEN <<x>> \o s
    ELSE <<Head(s)>> \o InsertAsc(x, Tail(s))

RECURSIVE SortedAsc(_)
SortedAsc(s) == IF s = <<>> THEN <<>> ELSE InsertAsc(Head(s), SortedAsc(Tail(s)))

\* a slice left in its input order (the sort.Slice call dropped)
SortAscSkipped(nums) == nums

\* sort.Slice(nums, func(i, j) bool { return nums[i] < nums[j] })
SortAsc(nums) == SortedAsc(nums)

\* the in-place deduplication loop: write := 1; for read := 1; read < n; read++
RECURSIVE DedupLoop(_, _, _)
DedupLoop(nums, read, write) ==
    IF read >= Len(nums) THEN SubSeq(nums, 1, write)
    ELSE IF At(nums, read) # At(nums, write - 1)
         THEN DedupLoop([nums EXCEPT ![write + 1] = At(nums, read)], read + 1, write + 1)
         ELSE DedupLoop(nums, read + 1, write)

\* the gap scan with ">=" in place of ">": the last widest pair wins
RECURSIVE GapScanLastWins(_, _, _, _)
GapScanLastWins(nums, i, bestGap, bestIdx) ==
    IF i >= Len(nums) - 1 THEN [gap |-> bestGap, idx |-> bestIdx]
    ELSE LET gap == At(nums, i + 1) - At(nums, i) - 1
         IN  IF gap >= bestGap
             THEN GapScanLastWins(nums, i + 1, gap, i)
             ELSE GapScanLastWins(nums, i + 1, bestGap, bestIdx)

\* for i := 0; i < len(nums)-1; i++ { gap := int(nums[i+1]) - int(nums[i]) - 1 ... }
RECURSIVE GapScan(_, _, _, _)
GapScan(nums, i, bestGap, bestIdx) ==
    IF i >= Len(nums) - 1 THEN [gap |-> bestGap, idx |-> bestIdx]
    ELSE LET gap == At(nums, i + 1) - At(nums, i) - 1
         IN  IF gap > bestGap
             THEN GapScan(nums, i + 1, gap, i)
             ELSE GapScan(nums, i + 1, bestGap, bestIdx)

\* the integer value of the expression closestMissing returns, before it is
\* stored in a uint16
closestMissingExact(nums) ==
    IF Len(nums) = 0 THEN 0
    ELSE LET ded  == DedupLoop(SortAsc(nums), 1, 1)
             best == GapScan(ded, 0, 0, 0)
             maxv == At(ded, Len(ded) - 1)
             minv == At(ded, 0)
         IN  IF best.gap > 0 THEN At(ded, best.idx) + 1
             ELSE IF maxv < MaxUint16 THEN maxv + 1
             ELSE IF minv > 0 THEN minv - 1
             ELSE 0

closestMissing(nums) == U16(closestMissingExact(nums))


(***************************************************************************)
(* File trees and the archive codec: compressDir (main.go 396-447) and     *)
(* decompressDir (448-509)                                                 *)
(***************************************************************************)
\* the relative paths of the trees, as sequences of names, and the order
\* filepath.Walk visits the names of one directory in
NameOrder == <<"a", "b">>
Paths == {<<"a">>, <<"b">>, <<"a", "a">>, <<"a", "b">>}

Bytes == {0, 1}
Contents == SeqsUpTo(Bytes, MaxBytes)
LinkTargets == {<<"b">>, <<"a", "/", "a">>}

Absent == [kind |-> "absent", data |-> <<>>, link |-> <<>>]
DirEntry == [kind |-> "dir", data |-> <<>>, link |-> <<>>]
FileEntry(data) == [kind |-> "file", data |-> data, link |-> <<>>]
LinkEntry(target) == [kind |-> "link", data |-> <<>>, link |-> target]

Entries == {DirEntry} \cup {FileEntry(c) : c \in Contents}
           \cup {LinkEntry(l) : l \in LinkTargets}

EmptyTree == [p \in Paths |-> Absent]

Parent(path) == SubSeq(path, 1, Len(path) - 1)

\* trees of directories, regular files and symbolic links: what is below a
\* path is below a directory
Trees ==
    {tree \in [Paths -> Entries \cup {Absent}] :
        \A p \in Paths :
            (Len(p) > 1 /\ tree[p] # Absent) => tree[Parent(p)] = DirEntry}

\* filepath.Rel(src, path): the names joined by the separator
RECURSIVE RelString(_)
RelString(path) ==
    IF Len(path) = 1 THEN <<path[1]>>
    ELSE <<Head(path), "/">> \o RelString(Tail(path))

\* filepath.Join(dst, header.Name), relative to dst: the names of the path
RECURSIVE SplitPath(_)
SplitPath(str) ==
    IF "/" \notin Range(str) THEN <<str[1]>>
    ELSE <<str[1]>> \o SplitPath(SubSeq(str, 3, Len(str)))

\* filepath.Walk below dir, in lexical order, not following symbolic links
RECURSIVE WalkFrom(_, _, _)
WalkFrom(tree, dir, n) ==
    IF n > Len(NameOrder) THEN <<>>
    ELSE LET path == Append(dir, NameOrder[n])
         IN  (IF path \in Paths /\ tree[path] # Absent
              THEN <<path>> \o (IF tree[path] = DirEntry
                                THEN WalkFrom(tree, path, 1) ELSE <<>>)
              ELSE <<>>)
             \o WalkFrom(tree, dir, n + 1)

\* lines 420-445: tar.FileInfoHeader(info, relPath) records its second
\* argument as the Linkname of a symbolic link; header.Name = relPath; the
\* content of a regular file follows
Header(tree, path) ==
    [name |-> RelString(path),
     typeflag |-> tree[path].kind,
     linkname |-> IF tree[path].kind = "link" THEN RelString(path) ELSE <<>>,
     data |-> tree[path].data]

\* compressDir(src, dst): the entries written, in walk order
compressDir(tree) ==
    LET walk == WalkFrom(tree, <<>>, 1)
    IN  [i \in 1..Len(walk) |-> Header(tree, walk[i])]

\* os.MkdirAll(path): every missing directory of the path is created; it
\* fails when a name of the path is taken by something else
RECURSIVE MkdirAll(_, _, _)
MkdirAll(tree, path, k) ==
    IF k > Len(path) THEN [tree |-> tree, err |-> "none"]
    ELSE LET prefix == SubSeq(path, 1, k)
         IN  IF tree[prefix] = Absent
             THEN MkdirAll([tree EXCEPT ![prefix] = DirEntry], path, k + 1)
             ELSE IF tree[prefix] = DirEntry THEN MkdirAll(tree, path, k + 1)
             ELSE [tree |-> tree, err |-> "notdir"]

\* os.OpenFile(targetPath, O_CREATE|O_RDWR, mode) and io.Copy(outFile, tr):
\* a new file gets the content; an existing file is written from offset 0
\* and keeps what lies behind the content; an existing symbolic link is
\* followed, so the write lands outside the tree
WriteFile(tree, path, data) ==
    IF tree[path] = Absent
    THEN [tree |-> [tree EXCEPT ![path] = FileEntry(data)], err |-> "none"]
    ELSE IF tree[path].kind = "file"
    THEN [tree |-> [tree EXCEPT ![path] =
                      FileEntry(data \o SubSeq(tree[path].data, Len(data) + 1,
                                               Len(tree[path].data)))],
          err |-> "none"]
    ELSE IF tree[path].kind = "link" THEN [tree |-> tree, err |-> "none"]
    ELSE [tree |-> tree, err |-> "isdir"]

\* os.Symlink(header.Linkname, targetPath)
Symlink(tree, path, linkname) ==
    IF tree[path] = Absent
    THEN [tree |-> [tree EXCEPT ![path] = LinkEntry(linkname)], err |-> "none"]
    ELSE [tree |-> tree, err |-> "exist"]

\* lines 472-505: one entry
DecodeEntry(tree, header) ==
    LET path == SplitPath(header.name)
    IN  IF header.typeflag = "dir" THEN MkdirAll(tree, path, 1)
        ELSE LET made == MkdirAll(tree, Parent(path), 1)
             IN  IF made.err # "none" THEN made
                 ELSE IF header.typeflag = "file"
                      THEN WriteFile(made.tree, path, header.data)
                      ELSE IF header.typeflag = "link"
                           THEN Symlink(made.tree, path, header.linkname)
                           ELSE made

\* decompressDir(src, dst): the entries in stored order, until one fails
RECURSIVE decompressDir(_, _)
decompressDir(entries, tree) ==
    IF entries = <<>> THEN [tree |-> tree, err |-> "none"]
    ELSE LET r == DecodeEntry(tree, Head(entries))
         IN  IF r.err # "none" THEN r ELSE decompressDir(Tail(entries), r.tree)

\* destinations: none yet, or one left by an earlier restore
PreTrees == {EmptyTree} \cup {[EmptyTree EXCEPT ![<<"b">>] = FileEntry(c)] : c \in Contents}

CodecIdle ==
    /\ cdPc = "src"
    /\ cdSrc = EmptyTree
    /\ cdArch = <<>>
    /\ cdPre = EmptyTree
    /\ cdDst = EmptyTree
    /\ cdErr = "none"

(***************************************************************************)
(* The store: directories, record files, archive files                     *)
(***************************************************************************)
\* the invocations; Spec runs them one at a time
AllProcs == {1, 2}
SeqProcs == {1}

Tokens == 1..MaxTokens
Times == 0..MaxTime

\* getAppDir() and a directory a configuration file can name instead
AppDir == "app"
OtherDir == "other"
Dirs == {AppDir, OtherDir}

\* record file contents: absent, unparseable, or a marshalled SidecarData
NoFile == [kind |-> "none", id |-> 0, of |-> <<>>, time |-> 0]
Corrupt == [kind |-> "corrupt", id |-> 0, of |-> <<>>, time |-> 0]
Marshalled(id, of, time) == [kind |-> "json", id |-> id, of |-> of, time |-> time]

\* the path "" and the path of the archive named by token t in directory d
NoPath == [dir |-> "", tok |-> 0]
ArchivePath(d, t) == [dir |-> d, tok |-> t]

\* the zero value of SidecarData
ZeroSidecar == [id |-> 0, of |-> <<>>, time |-> 0, parent |-> NoPath]

\* the working directory and the targets a backup can be asked for
Cwd == <<"/", "A">>
Targets == {<<".">>, <<"/", "b">>}

\* filepath.Abs(target)
Abs(target) ==
    IF Head(target) = "/" THEN target
    ELSE IF target = <<".">> THEN Cwd
    ELSE Cwd \o <<"/">> \o target

NoFiles == [d \in Dirs |-> [t \in Tokens |-> NoFile]]
NoArchives == [d \in Dirs |-> [t \in Tokens |-> "none"]]

\* the zero value of the locals of an invocation
NoLoc ==
    [ tok       |-> 0,        \* uuid of the backup being made
      target    |-> <<>>,     \* targetAbs
      rec       |-> NoFile,   \* the SidecarData generateSidecar builds
      others    |-> <<>>,     \* what readSidecars returned
      ans       |-> {},       \* record files askYesNo was answered "yes" for
      asked     |-> {},       \* record files askYesNo was called for
      orphans   |-> {},       \* record files reported as "without parent"
      out       |-> <<>>,     \* the records printed
      reqId     |-> 0,        \* the id a restore was asked for
      decoded   |-> {},       \* the src paths decompressDir was called with
      dest      |-> <<>>,     \* the dst decompressDir was called with
      wrote     |-> FALSE,    \* decompressDir created or changed something in dst
      err       |-> "none",   \* the error reported ("notexist": os.ErrNotExist)
      preList   |-> {},       \* records enumerable when the command began
      preFiles  |-> {},       \* files that existed when the command began
      cutoff    |-> 0,        \* the cutoff time a purge was asked for
      count     |-> 0 ]       \* the number of deleted records a purge reports

AllocIdle ==
    /\ allocPc = "in"
    /\ allocIn = <<>>
    /\ allocOut = 0

StoreIdle ==
    /\ cfgDir = AppDir
    /\ dirs = {}
    /\ sidecar = NoFiles
    /\ archive = NoArchives
    /\ pc = [p \in AllProcs |-> "idle"]
    /\ loc = [p \in AllProcs |-> NoLoc]

(***************************************************************************)
(* readSidecars (main.go 339-394)                                          *)
(***************************************************************************)
\* an orphaned record file left where it is
OrphanKept(sc, t) == sc

\* line 366: os.Remove(entryAbs) of a sidecar without parent
OrphanRemoved(sc, t) == [sc EXCEPT ![t] = NoFile]

\* a rejected record file left where it is
CorruptSidecarKept(sc, t) == sc

\* line 381: os.Remove(entryAbs) of a record file answered "delete"
CorruptSidecarRemoved(sc, t) == [sc EXCEPT ![t] = NoFile]

\* the archive of a rejected record file left where it is
CorruptArchiveKept(ar, t) == ar

\* line 382: os.Remove(strings.TrimSuffix(entryAbs, ".json"))
CorruptArchiveRemoved(ar, t) == [ar EXCEPT ![t] = "none"]

\* the loop over the entries of appDir, in os.ReadDir's file-name order;
\* sc and ar are the record files and archives of appDir, ans the answers
\* askYesNo gives
RECURSIVE ReadEntries(_, _, _, _, _)
ReadEntries(t, sc, ar, ans, acc) ==
    IF t > MaxTokens
    THEN [sidecar |-> sc, archive |-> ar, result |-> acc.result,
          asked |-> acc.asked, orphans |-> acc.orphans]
    ELSE IF sc[t] = NoFile
    THEN ReadEntries(t + 1, sc, ar, ans, acc)
    ELSE IF ar[t] = "none"
    THEN ReadEntries(t + 1, OrphanRemoved(sc, t), ar, ans,
                     [acc EXCEPT !.orphans = @ \cup {t}])
    ELSE IF sc[t] = Corrupt
    THEN IF ans[t]
         THEN ReadEntries(t + 1, CorruptSidecarRemoved(sc, t),
                          CorruptArchiveRemoved(ar, t), ans,
                          [acc EXCEPT !.asked = @ \cup {t}])
         ELSE ReadEntries(t + 1, sc, ar, ans, [acc EXCEPT !.asked = @ \cup {t}])
    ELSE ReadEntries(t + 1, sc, ar, ans,
                     [acc EXCEPT !.result =
                        Append(@, [id |-> sc[t].id, of |-> sc[t].of,
                                   time |-> sc[t].time,
                                   parent |-> ArchivePath(AppDir, t)])])

\* readSidecars(): the records read, and the files as it leaves them
readSidecars(ds, sc, ar, ans) ==
    IF AppDir \notin ds
    THEN [sidecar |-> sc, archive |-> ar, result |-> <<>>,
          asked |-> {}, orphans |-> {}]
    ELSE LET r == ReadEntries(1, sc[AppDir], ar[AppDir], ans,
                              [result |-> <<>>, asked |-> {}, orphans |-> {}])
         IN  [sidecar |-> [sc EXCEPT ![AppDir] = r.sidecar],
              archive |-> [ar EXCEPT ![AppDir] = r.archive],
              result |-> r.result, asked |-> r.asked, orphans |-> r.orphans]

KeepAll == [t \in Tokens |-> FALSE]
Yes(ans) == {t \in Tokens : ans[t]}

\* askYesNo (main.go 527-546): the answers typed for the record files that
\* are asked about (those that do not parse and have their archive)
Answers ==
    {ans \in [Tokens -> BOOLEAN] :
        \A t \in Tokens :
            ans[t] => /\ AppDir \in dirs
                      /\ sidecar[AppDir][t] = Corrupt
                      /\ archive[AppDir][t] # "none"}

\* the records a listRecords of the current store returns
Enumerable(ds, sc, ar) == Range(readSidecars(ds, sc, ar, KeepAll).result)

\* the files of the store
Files(sc, ar) ==
    {x \in Dirs \X Tokens \X {"json"} : sc[x[1]][x[2]] # NoFile}
    \cup {x \in Dirs \X Tokens \X {"tar"} : ar[x[1]][x[2]] # "none"}


(***************************************************************************)
(* generateUUID (main.go 606-625)                                          *)
(***************************************************************************)
\* a 128-bit random token: one that names no file and that no running
\* invocation holds
FreshToken(t) ==
    /\ \A d \in Dirs : sidecar[d][t] = NoFile /\ archive[d][t] = "none"
    /\ \A q \in AllProcs : pc[q] # "idle" => loc[q].tok # t

(***************************************************************************)
(* makeBackup (main.go 78-127) with generateSidecar (312-337) and the      *)
(* file operations of compressDir (396-447)                                *)
(***************************************************************************)
\* lines 79-100: the store directory, the token, the absolute target
MbBegin(p) ==
    /\ pc[p] = "idle"
    /\ \E target \in Targets, t \in Tokens, mkdirOk \in BOOLEAN :
        /\ FreshToken(t)
        /\ LET snap == [NoLoc EXCEPT
                          !.preList = Enumerable(dirs, sidecar, archive),
                          !.preFiles = Files(sidecar, archive)]
           IN  IF AppDir \notin dirs /\ ~mkdirOk
               THEN /\ pc' = [pc EXCEPT ![p] = "mb_exit1"]
                    /\ loc' = [loc EXCEPT ![p] = [snap EXCEPT !.err = "mkdir"]]
                    /\ dirs' = dirs
               ELSE /\ pc' = [pc EXCEPT ![p] = "mb_gen_read"]
                    /\ loc' = [loc EXCEPT ![p] =
                                 [snap EXCEPT !.tok = t, !.target = Abs(target)]]
                    /\ dirs' = dirs \cup {AppDir}
    /\ UNCHANGED <<cfgDir, sidecar, archive, harnessVars>>

\* the identifiers of the records read: usedIDs
UsedIDs(others) == [i \in 1..Len(others) |-> others[i].id]

\* the record built with an identifier that ignores the records read
NewSidecarIgnoringOthers(others, backupOf, now) == Marshalled(0, backupOf, now)

\* lines 319-327: SidecarData{BackupOf, Time, ID: closestMissing(usedIDs)}
NewSidecar(others, backupOf, now) ==
    Marshalled(closestMissing(UsedIDs(others)), backupOf, now)

\* generateSidecar, lines 313-327: read the other sidecars, build the record
MbGenRead(p) ==
    /\ pc[p] = "mb_gen_read"
    /\ \E ans \in Answers, now \in Times :
        LET r == readSidecars(dirs, sidecar, archive, ans)
        IN  /\ closestMissing(UsedIDs(r.result)) <= MaxId
            /\ sidecar' = r.sidecar
            /\ archive' = r.archive
            /\ loc' = [loc EXCEPT ![p].others = r.result,
                                  ![p].asked = r.asked,
                                  ![p].ans = Yes(ans),
                                  ![p].orphans = r.orphans,
                                  ![p].rec = NewSidecar(r.result, loc[p].target, now)]
    /\ pc' = [pc EXCEPT ![p] = "mb_gen_write"]
    /\ UNCHANGED <<cfgDir, dirs, harnessVars>>

\* a generateSidecar that returns without having written the record file
MbGenWriteSkipped(p) ==
    /\ pc[p] = "mb_gen_write"
    /\ pc' = [pc EXCEPT ![p] = "mb_create"]
    /\ UNCHANGED <<cfgDir, dirs, sidecar, archive, loc, harnessVars>>

\* generateSidecar, lines 329-336, and makeBackup's exit when it fails
MbGenWrite(p) ==
    /\ pc[p] = "mb_gen_write"
    /\ IF cfgDir \in dirs
       THEN /\ sidecar' = [sidecar EXCEPT ![cfgDir][loc[p].tok] = loc[p].rec]
            /\ pc' = [pc EXCEPT ![p] = "mb_create"]
            /\ loc' = loc
       ELSE /\ sidecar' = sidecar
            /\ pc' = [pc EXCEPT ![p] = "mb_exit1"]
            /\ loc' = [loc EXCEPT ![p].err = "sidecar"]
    /\ UNCHANGED <<cfgDir, dirs, archive, harnessVars>>

\* compressDir, lines 397-400: os.Create(dst)
MbCreate(p) ==
    /\ pc[p] = "mb_create"
    /\ \E ok \in BOOLEAN :
        IF ok
        THEN /\ archive' = [archive EXCEPT ![cfgDir][loc[p].tok] = "partial"]
             /\ pc' = [pc EXCEPT ![p] = "mb_walk"]
             /\ loc' = loc
        ELSE /\ archive' = archive
             /\ pc' = [pc EXCEPT ![p] = "mb_rollback"]
             /\ loc' = [loc EXCEPT ![p].err = "compress"]
    /\ UNCHANGED <<cfgDir, dirs, sidecar, harnessVars>>

\* compressDir, lines 401-446: the walk and the deferred Close calls, whose
\* errors are dropped; and makeBackup's lines 115-126
MbWalk(p) ==
    /\ pc[p] = "mb_walk"
    /\ \E outcome \in {"written", "closefailed", "walkfailed"} :
        /\ archive' = [archive EXCEPT ![cfgDir][loc[p].tok] =
                         IF outcome = "written" THEN "full" ELSE "partial"]
        /\ pc' = [pc EXCEPT ![p] =
                    IF outcome = "walkfailed" THEN "mb_rollback" ELSE "mb_done"]
        /\ loc' = [loc EXCEPT ![p].err =
                     IF outcome = "walkfailed" THEN "compress" ELSE "none"]
    /\ UNCHANGED <<cfgDir, dirs, sidecar, harnessVars>>

\* a rollback that leaves the record file in place
DeleteSidecarSkipped(sc, d, t) == sc

\* the closure generateSidecar returns: os.Remove(name)
DeleteSidecar(sc, d, t) == [sc EXCEPT ![d][t] = NoFile]

\* makeBackup, lines 117-119: deleteSidecar(); os.Exit(1)
MbRollback(p) ==
    /\ pc[p] = "mb_rollback"
    /\ sidecar' = DeleteSidecar(sidecar, cfgDir, loc[p].tok)
    /\ pc' = [pc EXCEPT ![p] = "mb_exit1"]
    /\ UNCHANGED <<cfgDir, dirs, archive, loc, harnessVars>>

(***************************************************************************)
(* The end of an invocation                                                *)
(***************************************************************************)
Terminal ==
    {"mb_done", "mb_exit1", "rs_done", "rs_exit1", "ls_done", "dl_done", "pg_done"}

\* the process returns from main or calls os.Exit
ProcExit(p) ==
    /\ pc[p] \in Terminal
    /\ pc' = [pc EXCEPT ![p] = "idle"]
    /\ loc' = [loc EXCEPT ![p] = NoLoc]
    /\ UNCHANGED <<cfgDir, dirs, sidecar, archive, harnessVars>>

\* the process is killed in the middle of a command
Crash(p) ==
    /\ pc[p] \notin Terminal \cup {"idle"}
    /\ pc' = [pc EXCEPT ![p] = "idle"]
    /\ loc' = [loc EXCEPT ![p] = NoLoc]
    /\ UNCHANGED <<cfgDir, dirs, sidecar, archive, harnessVars>>

\* between invocations a record file is damaged outside the program: the
\* content json.Unmarshal rejects at line 375
Tamper ==
    /\ \A q \in AllProcs : pc[q] = "idle"
    /\ \E d \in Dirs, t \in Tokens :
        /\ sidecar[d][t].kind = "json"
        /\ sidecar' = [sidecar EXCEPT ![d][t] = Corrupt]
    /\ UNCHANGED <<cfgDir, dirs, archive, pc, loc, harnessVars>>


(***************************************************************************)
(* Strings: sequences of one-character strings                             *)
(***************************************************************************)
\* strings.ToLower on the letters the model uses
UpperToLower == [c \in {"A", "B"} |-> IF c = "A" THEN "a" ELSE "b"]
ToLowerCh(c) == IF c \in DOMAIN UpperToLower THEN UpperToLower[c] ELSE c
ToLower(str) == [i \in 1..Len(str) |-> ToLowerCh(str[i])]

DigitCh == <<"0", "1", "2", "3", "4", "5", "6", "7", "8", "9">>

\* fmt's %v of an unsigned integer
RECURSIVE Itoa(_)
Itoa(n) == IF n < 10 THEN <<DigitCh[n + 1]>>
           ELSE Itoa(n \div 10) \o <<DigitCh[(n % 10) + 1]>>

Pad2(n) == <<DigitCh[(n \div 10) + 1], DigitCh[(n % 10) + 1]>>

\* Time.Local().Format("02.01.2006 15:04:05"), the default TimeFormat, of
\* the instant t seconds after 01.01.1970 00:00:00 local time (t within a day)
FormatTime(t) ==
    <<"0", "1", ".", "0", "1", ".", "1", "9", "7", "0", " ">>
    \o Pad2((t \div 3600) % 24) \o <<":">> \o Pad2((t \div 60) % 60)
    \o <<":">> \o Pad2(t % 60)

\* filepath.Base
RECURSIVE StripTrailingSlashes(_)
StripTrailingSlashes(path) ==
    IF Len(path) > 0 /\ path[Len(path)] = "/"
    THEN StripTrailingSlashes(SubSeq(path, 1, Len(path) - 1))
    ELSE path

RECURSIVE AfterLastSlash(_)
AfterLastSlash(path) ==
    IF "/" \notin Range(path) THEN path ELSE AfterLastSlash(Tail(path))

Base(path) ==
    IF path = <<>> THEN <<".">>
    ELSE LET last == AfterLastSlash(StripTrailingSlashes(path))
         IN  IF last = <<>> THEN <<"/">> ELSE last

(***************************************************************************)
(* listBackups (main.go 154-188) and FormatHay (297-303)                   *)
(***************************************************************************)
\* strings.ToLower(fmt.Sprintf("%v %s %s", s.ID, s.BackupOf, formatted time))
FormatHay(s) ==
    ToLower(Itoa(s.id) \o <<" ">> \o s.of \o <<" ">> \o FormatTime(s.time))

\* index of the first occurrence of rune r in target, 0 when there is none
FirstIndex(r, target) ==
    IF r \notin Range(target) THEN 0
    ELSE CHOOSE i \in 1..Len(target) :
            target[i] = r /\ \A j \in 1..(i - 1) : target[j] # r

\* a match that does not consume the target: every rune occurs somewhere
FuzzyMatchAnyOrder(source, target) == \A i \in 1..Len(source) : source[i] \in Range(target)

\* fuzzy.Match(source, target), called at line 171: each rune of source is
\* looked up in what is left of target after the previous rune's match
RECURSIVE FuzzyMatch(_, _)
FuzzyMatch(source, target) ==
    IF Len(target) - Len(source) < 0 THEN FALSE
    ELSE IF source = target THEN TRUE
    ELSE IF source = <<>> THEN TRUE
    ELSE LET i == FirstIndex(Head(source), target)
         IN  IF i = 0 THEN FALSE
             ELSE FuzzyMatch(Tail(source), SubSeq(target, i + 1, Len(target)))

\* the permutations of 1..n
Perms(n) == {f \in [1..n -> 1..n] : \A i, j \in 1..n : i # j => f[i] # f[j]}

\* sort.Slice(sidecars, Time.Before): not stable, so every arrangement that
\* is ascending by Time can come out
SortByTime(sidecars) ==
    {[i \in 1..Len(sidecars) |-> sidecars[f[i]]] : f \in
        {g \in Perms(Len(sidecars)) :
            \A i, j \in 1..Len(sidecars) :
                i < j => sidecars[g[i]].time <= sidecars[g[j]].time}}

\* lines 166-177: the records kept for printing
RECURSIVE Filtered(_, _)
Filtered(sorted, query) ==
    IF query = <<>> THEN sorted
    ELSE IF sorted = <<>> THEN <<>>
    ELSE IF FuzzyMatch(ToLower(query), FormatHay(Head(sorted)))
         THEN <<Head(sorted)>> \o Filtered(Tail(sorted), query)
         ELSE Filtered(Tail(sorted), query)

(***************************************************************************)
(* Filter harness: listBackups' sort and filter applied to bounded inputs  *)
(***************************************************************************)
QueryChars == {"a", "B", "1", "z"}
Queries == SeqsUpTo(QueryChars, MaxQuery)

\* records as readSidecars returns them
FilterRecords ==
    {[id |-> i, of |-> o, time |-> t, parent |-> ArchivePath(AppDir, 1)] :
        i \in {1, 10}, o \in {<<"/", "a", "b">>, <<"/", "b", "1", "a">>, Cwd},
        t \in Times}

FilterIdle ==
    /\ fltPc = "in"
    /\ fltIn = <<>>
    /\ fltQuery = <<>>
    /\ fltOut = <<>>

InitFilter ==
    /\ StoreIdle
    /\ CodecIdle
    /\ AllocIdle
    /\ fltPc = "in"
    /\ fltIn \in SeqsUpTo(FilterRecords, MaxRecs)
    /\ fltQuery \in Queries
    /\ fltOut = <<>>

FilterCall ==
    /\ fltPc = "in"
    /\ fltPc' = "out"
    /\ \E sorted \in SortByTime(fltIn) : fltOut' = Filtered(sorted, fltQuery)
    /\ UNCHANGED <<fltIn, fltQuery, storeVars, allocVars, cdVars>>

NextFilter == FilterCall

SpecFilter == InitFilter /\ [][NextFilter]_vars


(***************************************************************************)
(* restoreFrom (main.go 128-153) with the file operations of decompressDir *)
(***************************************************************************)
\* identifiers a restore can be asked for (main checks 0..65535)
ReqIds == 0..MaxTokens

\* lines 129-133
RsRead(p) ==
    /\ pc[p] = "idle"
    /\ \E id \in ReqIds, ans \in Answers :
        LET r == readSidecars(dirs, sidecar, archive, ans)
        IN  /\ sidecar' = r.sidecar
            /\ archive' = r.archive
            /\ loc' = [loc EXCEPT ![p] =
                         [NoLoc EXCEPT !.others = r.result, !.asked = r.asked,
                                       !.ans = Yes(ans),
                                       !.orphans = r.orphans, !.reqId = id]]
    /\ pc' = [pc EXCEPT ![p] = "rs_decode"]
    /\ UNCHANGED <<cfgDir, dirs, harnessVars>>

\* a lookup that falls back to the first record when none matches
RECURSIVE LookupOrFirst(_, _)
LookupOrFirst(sidecars, id) ==
    IF sidecars = <<>> THEN ZeroSidecar
    ELSE IF \A i \in 1..Len(sidecars) : sidecars[i].id # id THEN Head(sidecars)
    ELSE IF Head(sidecars).id = id THEN Head(sidecars)
    ELSE LookupOrFirst(Tail(sidecars), id)

\* lines 135-141: the first sidecar with the id, else the zero SidecarData
RECURSIVE Lookup(_, _)
Lookup(sidecars, id) ==
    IF sidecars = <<>> THEN ZeroSidecar
    ELSE IF Head(sidecars).id = id THEN Head(sidecars)
    ELSE Lookup(Tail(sidecars), id)

\* os.Open(src) at line 449 succeeds
CanOpen(src) == src # NoPath /\ archive[src.dir][src.tok] # "none"

\* lines 143-152 and decompressDir: the destination is touched only after
\* os.Open(src) succeeded; what the entries then create depends on the
\* archive's content and on I/O faults
RsDecode(p) ==
    /\ pc[p] = "rs_decode"
    /\ LET backupSidecar == Lookup(loc[p].others, loc[p].reqId)
           restoringTo == Base(backupSidecar.of) \o <<"-restored">>
           src == backupSidecar.parent
       IN  IF ~CanOpen(src)
           THEN /\ loc' = [loc EXCEPT ![p].decoded = {src},
                                      ![p].dest = restoringTo,
                                      ![p].err = "notexist"]
                /\ pc' = [pc EXCEPT ![p] = "rs_exit1"]
           ELSE \E ok \in BOOLEAN, wrote \in BOOLEAN :
                /\ loc' = [loc EXCEPT ![p].decoded = {src},
                                      ![p].dest = restoringTo,
                                      ![p].wrote = wrote,
                                      ![p].err = IF ok THEN "none" ELSE "decompress"]
                /\ pc' = [pc EXCEPT ![p] = IF ok THEN "rs_done" ELSE "rs_exit1"]
    /\ UNCHANGED <<cfgDir, dirs, sidecar, archive, harnessVars>>

(***************************************************************************)
(* listBackups (main.go 154-188) on the store                              *)
(***************************************************************************)
\* the queries asked of the store
StoreQueries == {<<>>, <<"B">>}

LsRun(p) ==
    /\ pc[p] = "idle"
    /\ \E query \in StoreQueries, ans \in Answers :
        LET r == readSidecars(dirs, sidecar, archive, ans)
        IN  /\ sidecar' = r.sidecar
            /\ archive' = r.archive
            /\ \E sorted \in SortByTime(r.result) :
                loc' = [loc EXCEPT ![p] =
                          [NoLoc EXCEPT !.others = r.result, !.asked = r.asked,
                                       !.ans = Yes(ans),
                                        !.orphans = r.orphans,
                                        !.out = Filtered(sorted, query),
                                        !.preList = Enumerable(dirs, sidecar, archive),
                                        !.preFiles = Files(sidecar, archive)]]
    /\ pc' = [pc EXCEPT ![p] = "ls_done"]
    /\ UNCHANGED <<cfgDir, dirs, harnessVars>>

(***************************************************************************)
(* DeleteAll (main.go 304-309) on a record readSidecars returned           *)
(***************************************************************************)
\* a DeleteAll that leaves the record file, or the archive, in place
DeleteAllSidecarKept(sc, s) == sc
DeleteAllArchiveKept(ar, s) == ar

\* os.Remove(s.ParentPath); os.Remove(s.ParentPath + ".json")
DeleteAllSidecar(sc, s) ==
    IF s.parent # NoPath THEN [sc EXCEPT ![s.parent.dir][s.parent.tok] = NoFile] ELSE sc
DeleteAllArchive(ar, s) ==
    IF s.parent # NoPath THEN [ar EXCEPT ![s.parent.dir][s.parent.tok] = "none"] ELSE ar

DlRun(p) ==
    /\ pc[p] = "idle"
    /\ \E ans \in Answers :
        LET r == readSidecars(dirs, sidecar, archive, ans)
        IN  \E i \in 1..Len(r.result) :
            /\ sidecar' = DeleteAllSidecar(r.sidecar, r.result[i])
            /\ archive' = DeleteAllArchive(r.archive, r.result[i])
            /\ loc' = [loc EXCEPT ![p] =
                         [NoLoc EXCEPT !.others = r.result, !.asked = r.asked,
                                       !.ans = Yes(ans),
                                       !.orphans = r.orphans,
                                       !.out = <<r.result[i]>>]]
    /\ pc' = [pc EXCEPT ![p] = "dl_done"]
    /\ UNCHANGED <<cfgDir, dirs, harnessVars>>

(***************************************************************************)
(* purgeBackups (spec.md 4.5): the purge command, which main.go 34-75 does *)
(* not hold; it calls readSidecars and DeleteAll                           *)
(***************************************************************************)
\* the cutoff times a purge is asked for (now minus the duration): those
\* that lie after the earliest time a record can hold and not after the
\* latest, so that any record may fall on either side
PurgeCutoffs == 1..MaxTime

\* the records with createdAt strictly before cutoffTime
PurgeVictims(records, cutoff) ==
    SelectSeq(records, LAMBDA s : s.time < cutoff)

\* DeleteAll applied to each victim in turn
RECURSIVE PurgeSidecars(_, _)
PurgeSidecars(sc, victims) ==
    IF victims = <<>> THEN sc
    ELSE PurgeSidecars(DeleteAllSidecar(sc, Head(victims)), Tail(victims))

RECURSIVE PurgeArchives(_, _)
PurgeArchives(ar, victims) ==
    IF victims = <<>> THEN ar
    ELSE PurgeArchives(DeleteAllArchive(ar, Head(victims)), Tail(victims))

PgRun(p) ==
    /\ pc[p] = "idle"
    /\ \E cutoff \in PurgeCutoffs, ans \in Answers :
        LET r == readSidecars(dirs, sidecar, archive, ans)
            victims == PurgeVictims(r.result, cutoff)
        IN  /\ sidecar' = PurgeSidecars(r.sidecar, victims)
            /\ archive' = PurgeArchives(r.archive, victims)
            /\ loc' = [loc EXCEPT ![p] =
                         [NoLoc EXCEPT !.others = r.result, !.asked = r.asked,
                                       !.ans = Yes(ans),
                                       !.orphans = r.orphans,
                                       !.out = victims,
                                       !.cutoff = cutoff,
                                       !.count = Len(victims)]]
    /\ pc' = [pc EXCEPT ![p] = "pg_done"]
    /\ UNCHANGED <<cfgDir, dirs, harnessVars>>

(***************************************************************************)
(* The store specification: one invocation at a time                       *)
(***************************************************************************)
\* loadConfig (main.go 214-231): the default store directory, or the one a
\* configuration file names (which may or may not exist yet)
Init ==
    /\ cfgDir \in Dirs
    /\ dirs \in IF cfgDir = AppDir THEN {{}} ELSE {{}, {OtherDir}}
    /\ sidecar = NoFiles
    /\ archive = NoArchives
    /\ pc = [p \in AllProcs |-> "idle"]
    /\ loc = [p \in AllProcs |-> NoLoc]
    /\ CodecIdle
    /\ FilterIdle
    /\ AllocIdle

Next ==
    \/ \E p \in SeqProcs : MbBegin(p)
    \/ \E p \in SeqProcs : MbGenRead(p)
    \/ \E p \in SeqProcs : MbGenWrite(p)
    \/ \E p \in SeqProcs : MbCreate(p)
    \/ \E p \in SeqProcs : MbWalk(p)
    \/ \E p \in SeqProcs : MbRollback(p)
    \/ \E p \in SeqProcs : RsRead(p)
    \/ \E p \in SeqProcs : RsDecode(p)
    \/ \E p \in SeqProcs : LsRun(p)
    \/ \E p \in SeqProcs : DlRun(p)
    \/ \E p \in SeqProcs : PgRun(p)
    \/ \E p \in SeqProcs : ProcExit(p)
    \/ \E p \in SeqProcs : Crash(p)
    \/ Tamper

Spec == Init /\ [][Next]_vars

(***************************************************************************)
(* The concurrent specification: two invocations, each running one         *)
(* command (backup, restore or list) on the default store, their steps     *)
(* interleaved: no lock is taken                                           *)
(***************************************************************************)
\* the store before the two invocations: never used, or holding the backup
\* an earlier invocation made
EarlierBackup == Marshalled(0, Cwd, 0)

InitConc ==
    /\ cfgDir = AppDir
    /\ \E earlier \in BOOLEAN :
        /\ dirs = IF earlier THEN {AppDir} ELSE {}
        /\ sidecar = IF earlier THEN [NoFiles EXCEPT ![AppDir][1] = EarlierBackup]
                                ELSE NoFiles
        /\ archive = IF earlier THEN [NoArchives EXCEPT ![AppDir][1] = "full"]
                                ELSE NoArchives
    /\ pc = [p \in AllProcs |-> "idle"]
    /\ loc = [p \in AllProcs |-> NoLoc]
    /\ CodecIdle
    /\ FilterIdle
    /\ AllocIdle

NextConc ==
    \/ \E p \in AllProcs : MbBegin(p)
    \/ \E p \in AllProcs : MbGenRead(p)
    \/ \E p \in AllProcs : MbGenWrite(p)
    \/ \E p \in AllProcs : MbCreate(p)
    \/ \E p \in AllProcs : MbWalk(p)
    \/ \E p \in AllProcs : MbRollback(p)
    \/ \E p \in AllProcs : RsRead(p)
    \/ \E p \in AllProcs : RsDecode(p)
    \/ \E p \in AllProcs : LsRun(p)

SpecConc == InitConc /\ [][NextConc]_vars


(***************************************************************************)
(* C3-C7, C10: the store                                                   *)
(***************************************************************************)
DistinctIds(records) ==
    \A i, j \in 1..Len(records) : i # j => records[i].id # records[j].id

\* C3: whatever createBackup, deleteRecord and listRecords ran before, one
\* invocation at a time, no listRecords result holds two records with the
\* same identifier: neither what a listRecords of the current store returns
\* nor what an invocation has read.
C3_UniqueIdentifiers ==
    /\ DistinctIds(readSidecars(dirs, sidecar, archive, KeepAll).result)
    /\ \A p \in AllProcs : DistinctIds(loc[p].others) /\ DistinctIds(loc[p].out)

\* two records are listed after a delete and a create made the identifiers
\* climb past the freed one
C3_Witness ==
    /\ pc[1] = "ls_done"
    /\ Len(loc[1].others) = 2
    /\ {loc[1].others[i].id : i \in 1..2} = {1, 2}

\* C4: when createBackup ends after compressDir returned an error, the
\* record file it wrote is gone, a listRecords returns exactly the records
\* that were enumerable before the call, and the only file that exists now
\* and did not before is the archive of the failed backup.
C4_FailedBackupRolledBack ==
    \A p \in AllProcs :
        (pc[p] = "mb_exit1" /\ loc[p].err = "compress")
            => /\ sidecar[cfgDir][loc[p].tok] = NoFile
               /\ Enumerable(dirs, sidecar, archive) = loc[p].preList
               /\ Files(sidecar, archive) \ loc[p].preFiles
                      \subseteq {<<cfgDir, loc[p].tok, "tar">>}

\* a backup failed in the walk, beside an older backup, and left its partial
\* archive
C4_Witness ==
    /\ pc[1] = "mb_exit1"
    /\ loc[1].err = "compress"
    /\ archive[cfgDir][loc[1].tok] = "partial"
    /\ loc[1].preList # {}
    /\ cfgDir = AppDir

\* C5: after a createBackup whose compressDir returned nil, whatever store
\* directory is configured, that directory exists and a listRecords returns
\* a record with the allocated identifier, the absolute source path and the
\* path of the archive just written.
C5_BackupListed ==
    \A p \in AllProcs :
        pc[p] = "mb_done"
            => /\ cfgDir \in dirs
               /\ \E r \in Enumerable(dirs, sidecar, archive) :
                    /\ r.id = loc[p].rec.id
                    /\ r.of = loc[p].target
                    /\ Head(r.of) = "/"
                    /\ r.parent = ArchivePath(cfgDir, loc[p].tok)

\* a step in which invocation p runs readSidecars
ReadStep(p) ==
    <<pc[p], pc'[p]>> \in {<<"idle", "ls_done">>, <<"idle", "rs_decode">>,
                           <<"idle", "dl_done">>, <<"idle", "pg_done">>,
                           <<"mb_gen_read", "mb_gen_write">>}

\* the record files of appDir with an archive and a content that parses
ValidTokens ==
    {t \in Tokens : AppDir \in dirs /\ sidecar[AppDir][t].kind = "json"
                    /\ archive[AppDir][t] # "none"}

\* the record files of appDir without an archive
OrphanTokens ==
    {t \in Tokens : AppDir \in dirs /\ sidecar[AppDir][t] # NoFile
                    /\ archive[AppDir][t] = "none"}

\* the record files of appDir that do not parse and have an archive
CorruptTokens ==
    {t \in Tokens : AppDir \in dirs /\ sidecar[AppDir][t] = Corrupt
                    /\ archive[AppDir][t] # "none"}

ReturnedTokens(records) == {records[i].parent.tok : i \in 1..Len(records)}

\* C6: a readSidecars run deletes every record file whose archive is absent,
\* does not return it, does not call askYesNo for it (parseable or not), and
\* returns, without error, exactly the records that are valid.
C6_OrphanPruned ==
    [][\A p \in AllProcs :
         ReadStep(p) =>
            /\ \A t \in OrphanTokens :
                 /\ sidecar'[AppDir][t] = NoFile
                 /\ t \notin ReturnedTokens(loc'[p].others)
                 /\ t \notin loc'[p].asked
            /\ ReturnedTokens(loc'[p].others) = ValidTokens
            /\ \A i \in 1..Len(loc'[p].others) :
                 LET r == loc'[p].others[i]
                     f == sidecar[AppDir][r.parent.tok]
                 IN  r.id = f.id /\ r.of = f.of /\ r.time = f.time
            /\ loc'[p].err = "none"]_vars

\* a listing pruned one orphaned record file without asking about it and
\* returned the other record
C6_Witness ==
    /\ pc[1] = "ls_done"
    /\ loc[1].orphans # {}
    /\ Len(loc[1].others) = 1
    /\ \E t \in loc[1].orphans : <<AppDir, t, "json">> \in loc[1].preFiles
    /\ loc[1].asked = {}

\* C7: a record file that has its archive and does not parse is never
\* returned, makes no readSidecars fail, and does not stop the other records
\* from being returned; answered "keep", the file and its archive stay as
\* they are; answered "delete", both are removed.
C7_CorruptResolved ==
    [][\A p \in AllProcs :
         ReadStep(p) =>
            /\ \A t \in CorruptTokens :
                 /\ t \in loc'[p].asked
                 /\ t \notin ReturnedTokens(loc'[p].others)
                 /\ t \notin loc'[p].ans =>
                      /\ sidecar'[AppDir][t] = Corrupt
                      /\ archive'[AppDir][t] = archive[AppDir][t]
                 /\ t \in loc'[p].ans =>
                      /\ sidecar'[AppDir][t] = NoFile
                      /\ archive'[AppDir][t] = "none"
            /\ ReturnedTokens(loc'[p].others) = ValidTokens
            /\ loc'[p].err = "none"]_vars

\* a listing was asked about an unparseable record, was told to delete it,
\* and returned the record filed after it
C7_Witness ==
    /\ pc[1] = "ls_done"
    /\ loc[1].asked = {1}
    /\ loc[1].ans = {1}
    /\ sidecar[AppDir][1] = NoFile
    /\ archive[AppDir][1] = "none"
    /\ ReturnedTokens(loc[1].others) = {2}

\* C10: a restoreFrom(id) that finds no listed record with identifier id
\* ends with exit status 1 and a does-not-exist error, has called
\* decompressDir on no archive path, and has created or changed nothing in a
\* destination directory.
C10_RestoreNotFound ==
    \A p \in AllProcs :
        (/\ pc[p] \in {"rs_done", "rs_exit1"}
         /\ \A i \in 1..Len(loc[p].others) : loc[p].others[i].id # loc[p].reqId)
            => /\ pc[p] = "rs_exit1"
               /\ loc[p].err = "notexist"
               /\ \A src \in loc[p].decoded : src = NoPath
               /\ ~loc[p].wrote

\* a restore of identifier 1 ended while only identifier 0 was listed
C10_Witness ==
    /\ pc[1] = "rs_exit1"
    /\ loc[1].reqId = 1
    /\ Len(loc[1].others) = 1
    /\ loc[1].others[1].id = 0
    /\ loc[1].decoded = {NoPath}

\* C11: a purgeBackups(cutoff) applies DeleteAll to exactly the listed
\* records whose time is strictly before cutoff, reports their number, and a
\* listRecords afterwards returns exactly the records whose time is at or
\* after cutoff.
C11_PurgeExact ==
    [][\A p \in AllProcs :
         (pc[p] = "idle" /\ pc'[p] = "pg_done") =>
            LET before == Enumerable(dirs, sidecar, archive)
                old == {r \in before : r.time < loc'[p].cutoff}
            IN  /\ Range(loc'[p].out) = old
                /\ loc'[p].count = Cardinality(old)
                /\ \A r \in old :
                     /\ sidecar'[r.parent.dir][r.parent.tok] = NoFile
                     /\ archive'[r.parent.dir][r.parent.tok] = "none"
                /\ Enumerable(dirs', sidecar', archive') = before \ old]_vars

\* of two listed records the one made before the cutoff was purged and the
\* one made at the cutoff is still listed
C11_Witness ==
    /\ pc[1] = "pg_done"
    /\ Len(loc[1].others) = 2
    /\ loc[1].cutoff = 1
    /\ loc[1].count = 1
    /\ \E r \in Enumerable(dirs, sidecar, archive) : r.time = loc[1].cutoff

\* C12: DeleteAll applied to a record readSidecars returned removes that
\* record's archive and record file and changes no other file; afterwards no
\* listRecords returns the record and its identifier is not among those
\* handed to closestMissing; applied once more, when both files are already
\* absent, it removes nothing and reports no error.
C12_DeleteRecord ==
    [][\A p \in AllProcs :
         (pc[p] = "idle" /\ pc'[p] = "dl_done") =>
            LET read == readSidecars(dirs, sidecar, archive,
                                     [t \in Tokens |-> t \in loc'[p].ans])
                s == loc'[p].out[1]
                after == readSidecars(dirs', sidecar', archive', KeepAll).result
            IN  /\ s \in Range(read.result)
                /\ sidecar'[s.parent.dir][s.parent.tok] = NoFile
                /\ archive'[s.parent.dir][s.parent.tok] = "none"
                /\ \A d \in Dirs, t \in Tokens :
                     ArchivePath(d, t) # s.parent =>
                        /\ sidecar'[d][t] = read.sidecar[d][t]
                        /\ archive'[d][t] = read.archive[d][t]
                /\ Range(after) = Range(read.result) \ {s}
                /\ s.id \notin Range(UsedIDs(after))
                /\ DeleteAllSidecar(sidecar', s) = sidecar'
                /\ DeleteAllArchive(archive', s) = archive'
                /\ loc'[p].err = "none"]_vars

\* one of two listed backups was deleted; the other is still listed
C12_Witness ==
    /\ pc[1] = "dl_done"
    /\ Len(loc[1].others) = 2
    /\ loc[1].out[1].id = 0
    /\ Cardinality(Enumerable(dirs, sidecar, archive)) = 1
    /\ \A r \in Enumerable(dirs, sidecar, archive) : r.id = 1

\* C13: when makeBackup is killed after its record file was written and
\* before the rollback removed it (before os.Create, during the walk, or
\* after compressDir failed), the next listRecords of the default store
\* removes that record file and does not return it.
C13_CrashRecordPruned ==
    [][\A p \in AllProcs :
         (/\ pc[p] \in {"mb_create", "mb_walk", "mb_rollback"}
          /\ pc'[p] = "idle"
          /\ cfgDir = AppDir) =>
            LET next == readSidecars(dirs', sidecar', archive', KeepAll)
            IN  /\ next.sidecar[cfgDir][loc[p].tok] = NoFile
                /\ loc[p].tok \notin ReturnedTokens(next.result)]_vars

\* C14: compressDir returns an error whenever a write to the archive fails,
\* the final flush and Close of the tar writer, the zstd writer and the file
\* included: a makeBackup that reports success has kept its record file and
\* has written the archive completely.
C14_SuccessMeansComplete ==
    \A p \in AllProcs :
        pc[p] = "mb_done"
            => /\ loc[p].err = "none"
               /\ sidecar[cfgDir][loc[p].tok] = loc[p].rec
               /\ archive[cfgDir][loc[p].tok] = "full"

\* C16: makeBackup writes the record file before compressDir creates the
\* archive, and takes the identifier from a readSidecars run made before the
\* record is written: in every state of a makeBackup that has not entered
\* rollback, the archive of the pending backup exists only if its record
\* file exists; until generateSidecar writes, neither file exists; and the
\* identifier in the record is closestMissing of the identifiers read, none
\* of which belongs to the pending backup itself.
C16_RecordBeforeArchive ==
    \A p \in AllProcs :
        /\ pc[p] \in {"mb_gen_read", "mb_gen_write", "mb_create", "mb_walk", "mb_done"}
             => (archive[cfgDir][loc[p].tok] # "none"
                    => sidecar[cfgDir][loc[p].tok] = loc[p].rec)
        /\ pc[p] \in {"mb_gen_read", "mb_gen_write"}
             => /\ sidecar[cfgDir][loc[p].tok] = NoFile
                /\ archive[cfgDir][loc[p].tok] = "none"
        /\ pc[p] = "mb_create" => archive[cfgDir][loc[p].tok] = "none"
        /\ pc[p] \in {"mb_walk", "mb_done"}
             => /\ sidecar[cfgDir][loc[p].tok] = loc[p].rec
                /\ archive[cfgDir][loc[p].tok] # "none"
        /\ pc[p] \in {"mb_gen_write", "mb_create", "mb_walk", "mb_done"}
             => /\ loc[p].rec.id = closestMissing(UsedIDs(loc[p].others))
                /\ loc[p].tok \notin ReturnedTokens(loc[p].others)

\* compressDir has created the archive of a second backup, whose record
\* file holds the identifier allocated beside the first backup's
C16_Witness ==
    /\ pc[1] = "mb_walk"
    /\ archive[cfgDir][loc[1].tok] = "partial"
    /\ sidecar[cfgDir][loc[1].tok].kind = "json"
    /\ Len(loc[1].others) = 1
    /\ loc[1].rec.id = 1

\* a step in which invocation p runs readSidecars and nothing else
ListStep(p) ==
    <<pc[p], pc'[p]>> \in {<<"idle", "ls_done">>, <<"idle", "rs_decode">>,
                           <<"mb_gen_read", "mb_gen_write">>}

\* the record files asked about: unparseable, with their archive
Askable(ds, sc, ar) ==
    {t \in Tokens : AppDir \in ds /\ sc[AppDir][t] = Corrupt /\ ar[AppDir][t] # "none"}

\* the record files of appDir as a readSidecars run answered "delete" for
\* those in yes has to leave them: without the orphaned ones and without
\* the unparseable ones answered "delete"
RecordsLeft(ds, sc, ar, yes) ==
    IF AppDir \notin ds THEN sc[AppDir]
    ELSE [t \in Tokens |->
            IF ar[AppDir][t] = "none" \/ (sc[AppDir][t] = Corrupt /\ t \in yes)
            THEN NoFile ELSE sc[AppDir][t]]

\* the archives of appDir as that run has to leave them: without those of
\* the unparseable record files answered "delete"
ArchivesLeft(ds, sc, ar, yes) ==
    IF AppDir \notin ds THEN ar[AppDir]
    ELSE [t \in Tokens |->
            IF sc[AppDir][t] = Corrupt /\ t \in yes THEN "none" ELSE ar[AppDir][t]]

\* C20: a readSidecars run creates and rewrites no file, removes exactly
\* the orphaned record files and the unparseable record files answered
\* "delete" with their archives, leaves the files of the records it returns
\* as they are and the set of directories as it is; a second run right
\* after it returns the same records, finds no orphan, asks only about the
\* unparseable record files that were kept, removes nothing when these are
\* kept again, and otherwise removes only those then answered "delete",
\* with their archives.
C20_ListFrame ==
    [][\A p \in AllProcs :
         ListStep(p) =>
            /\ sidecar' = [sidecar EXCEPT ![AppDir] =
                             RecordsLeft(dirs, sidecar, archive, loc'[p].ans)]
            /\ archive' = [archive EXCEPT ![AppDir] =
                             ArchivesLeft(dirs, sidecar, archive, loc'[p].ans)]
            /\ \A t \in ReturnedTokens(loc'[p].others) :
                 /\ sidecar'[AppDir][t] = sidecar[AppDir][t]
                 /\ sidecar'[AppDir][t].kind = "json"
                 /\ archive'[AppDir][t] = archive[AppDir][t]
                 /\ archive'[AppDir][t] # "none"
            /\ dirs' = dirs
            /\ \A yes2 \in SUBSET Askable(dirs', sidecar', archive') :
                 LET again == readSidecars(dirs', sidecar', archive',
                                           [t \in Tokens |-> t \in yes2])
                 IN  /\ again.result = loc'[p].others
                     /\ again.orphans = {}
                     /\ again.asked = loc'[p].asked \ loc'[p].ans
                     /\ again.sidecar[AppDir] =
                          [t \in Tokens |-> IF t \in yes2 THEN NoFile
                                            ELSE sidecar'[AppDir][t]]
                     /\ again.archive[AppDir] =
                          [t \in Tokens |-> IF t \in yes2 THEN "none"
                                            ELSE archive'[AppDir][t]]
                     /\ again.sidecar[OtherDir] = sidecar'[OtherDir]
                     /\ again.archive[OtherDir] = archive'[OtherDir]]_vars

\* a listing removed an orphaned record file and returned the other
\* record, whose archive is still in the store
C20_Witness ==
    /\ pc[1] = "ls_done"
    /\ loc[1].orphans # {}
    /\ Len(loc[1].others) = 1
    /\ Files(sidecar, archive) # loc[1].preFiles
    /\ \A i \in 1..Len(loc[1].others) :
         <<AppDir, loc[1].others[i].parent.tok, "tar">> \in Files(sidecar, archive)

(***************************************************************************)
(* C17, C18: interleaved invocations                                       *)
(***************************************************************************)
\* the positions of a makeBackup between generateSidecar's write and the
\* end, rollback excluded
Pending == {"mb_create", "mb_walk", "mb_done"}

\* C17: while another invocation runs readSidecars in between (for a list,
\* a restore or a backup of its own), the record file of a pending
\* makeBackup is never removed, and a makeBackup whose compressDir returned
\* nil ends with its record file and its archive present.
C17_PendingRecordKept ==
    \A p \in AllProcs :
        /\ pc[p] \in Pending => sidecar[cfgDir][loc[p].tok] = loc[p].rec
        /\ pc[p] = "mb_done" => archive[cfgDir][loc[p].tok] # "none"

\* C18: after two interleaved makeBackup invocations have ended, a
\* listRecords returns records with pairwise distinct identifiers.
C18_DistinctAfterInterleaving ==
    (\A p \in AllProcs : pc[p] \in Terminal \cup {"idle"})
        => \A r1, r2 \in Enumerable(dirs, sidecar, archive) :
              r1.id = r2.id => r1 = r2

(***************************************************************************)
(* C8: the query engine                                                    *)
(***************************************************************************)
\* the positions of hay at which an order-preserving embedding of the first
\* k characters of q can end (0: before the first position)
RECURSIVE EmbedEnds(_, _, _)
EmbedEnds(q, hay, k) ==
    IF k = 0 THEN {0}
    ELSE LET before == EmbedEnds(q, hay, k - 1)
         IN  {j \in 1..Len(hay) : hay[j] = q[k] /\ \E i \in before : i < j}

\* every character of q occurs in hay, in the same relative order
IsSubsequence(q, hay) == EmbedEnds(q, hay, Len(q)) # {}

Count(records, r) == Cardinality({i \in 1..Len(records) : records[i] = r})

\* C8: listBackups prints records in ascending Time order; with the empty
\* query every record; with another query exactly the records whose
\* lowercased haystack holds the characters of the lowercased query as an
\* ordered subsequence, so none when a query character is in no haystack.
C8_FilterSubsequence ==
    fltPc = "out"
        => /\ \A i, j \in 1..Len(fltOut) : i < j => fltOut[i].time <= fltOut[j].time
           /\ \A r \in Range(fltIn) \cup Range(fltOut) :
                Count(fltOut, r) =
                    IF fltQuery = <<>> \/ IsSubsequence(ToLower(fltQuery), FormatHay(r))
                    THEN Count(fltIn, r) ELSE 0
           /\ (\E k \in 1..Len(fltQuery) :
                 \A i \in 1..Len(fltIn) :
                    ToLower(fltQuery)[k] \notin Range(FormatHay(fltIn[i])))
                => fltOut = <<>>

\* the later record is sorted behind the earlier one and is the only one
\* kept: the other haystack holds both query characters, in the other order
C8_Witness ==
    /\ fltPc = "out"
    /\ fltQuery = <<"B", "a">>
    /\ Len(fltIn) = 2
    /\ fltIn[1].of = <<"/", "b", "1", "a">> /\ fltIn[1].time = 1
    /\ fltIn[2].of = <<"/", "a", "b">> /\ fltIn[2].time = 0
    /\ fltOut = <<fltIn[1]>>


(***************************************************************************)
(* Codec harness: compressDir, then decompressDir of its archive           *)
(***************************************************************************)
InitCodec ==
    /\ StoreIdle
    /\ FilterIdle
    /\ AllocIdle
    /\ cdPc = "src"
    /\ cdSrc \in Trees
    /\ cdArch = <<>>
    /\ cdPre \in PreTrees
    /\ cdDst = cdPre
    /\ cdErr = "none"

CodecEncode ==
    /\ cdPc = "src"
    /\ cdPc' = "enc"
    /\ cdArch' = compressDir(cdSrc)
    /\ UNCHANGED <<cdSrc, cdPre, cdDst, cdErr, storeVars, fltVars, allocVars>>

CodecDecode ==
    /\ cdPc = "enc"
    /\ cdPc' = "dec"
    /\ LET r == decompressDir(cdArch, cdDst)
       IN  cdDst' = r.tree /\ cdErr' = r.err
    /\ UNCHANGED <<cdSrc, cdArch, cdPre, storeVars, fltVars, allocVars>>

NextCodec ==
    \/ CodecEncode
    \/ CodecDecode

SpecCodec == InitCodec /\ [][NextCodec]_vars

\* C9: compressDir of a tree of directories, regular files and symbolic
\* links, then decompressDir into a fresh destination, succeeds and yields
\* the same relative paths with the same kinds, the same file contents and
\* the same symlink targets.
C9_RoundTrip ==
    (cdPc = "dec" /\ cdPre = EmptyTree)
        => /\ cdErr = "none"
           /\ \A p \in Paths :
                /\ cdDst[p].kind = cdSrc[p].kind
                /\ cdDst[p].data = cdSrc[p].data
                /\ cdDst[p].link = cdSrc[p].link

\* C19: when decompressDir returns nil, every regular-file entry of the
\* archive (here one made from a tree without symbolic links) exists at its
\* destination path as a file with exactly the stored content, also when the
\* destination already held a file at that path.
C19_RestoredContent ==
    (/\ cdPc = "dec"
     /\ cdErr = "none"
     /\ \A i \in 1..Len(cdArch) : cdArch[i].typeflag # "link")
        => \A i \in 1..Len(cdArch) :
              cdArch[i].typeflag = "file"
                 => /\ cdDst[SplitPath(cdArch[i].name)].kind = "file"
                    /\ cdDst[SplitPath(cdArch[i].name)].data = cdArch[i].data

(***************************************************************************)
(* Allocator harness: closestMissing applied to bounded inputs             *)
(***************************************************************************)
InitAlloc ==
    /\ StoreIdle
    /\ CodecIdle
    /\ FilterIdle
    /\ allocPc = "in"
    /\ allocIn \in SeqsUpTo(IdDomain, MaxLen)
    /\ allocOut = 0

AllocCall ==
    /\ allocPc = "in"
    /\ allocPc' = "out"
    /\ allocOut' = closestMissing(allocIn)
    /\ UNCHANGED <<allocIn, storeVars, fltVars, cdVars>>

NextAlloc == AllocCall

SpecAlloc == InitAlloc /\ [][NextAlloc]_vars

(***************************************************************************)
(* C1, C2: the allocator                                                   *)
(***************************************************************************)
\* C1: for every list of existing identifiers that does not hold all of
\* 0..65535, closestMissing returns a value of 0..65535 that is not in it.
C1_AllocateAbsent ==
    (allocPc = "out" /\ Range(allocIn) # 0..MaxUint16)
        => (allocOut \in 0..MaxUint16 /\ allocOut \notin Range(allocIn))

\* an unsorted list with duplicates was handed in and an absent value came back
C1_Witness ==
    /\ allocPc = "out"
    /\ allocIn = <<5, 0, 1, 0>>
    /\ allocOut = 2

\* the reference of C2, stated over the set of identifiers
RefNext(S, prev) == CHOOSE n \in S : n > prev /\ \A m \in S : m > prev => n <= m
RefPairs(S) == {prev \in S : \E n \in S : n > prev}
RefGap(S, prev) == RefNext(S, prev) - prev - 1
RefMax(S) == CHOOSE m \in S : \A x \in S : x <= m
RefMin(S) == CHOOSE m \in S : \A x \in S : m <= x
RefAllocate(S) ==
    IF S = {} THEN 0
    ELSE IF \E prev \in RefPairs(S) : RefGap(S, prev) > 0
         THEN LET widest == {prev \in RefPairs(S) :
                                \A q \in RefPairs(S) : RefGap(S, q) <= RefGap(S, prev)}
              IN  RefMin(widest) + 1
         ELSE IF RefMax(S) < 65535 THEN RefMax(S) + 1
         ELSE IF RefMin(S) > 0 THEN RefMin(S) - 1
         ELSE 0

\* C2: closestMissing returns the reference value (first value of the lowest
\* widest gap, else max + 1, else min - 1, else 0), and the returned
\* expression never leaves 0..65535 before it is stored in a uint16.
C2_AllocateReference ==
    allocPc = "out"
        => /\ allocOut = RefAllocate(Range(allocIn))
           /\ closestMissingExact(allocIn) \in 0..MaxUint16
           /\ (Range(allocIn) = {0, 1, 5, 6} => allocOut = 2)
           /\ \A k \in 0..MaxLen :
                (k < MaxUint16 /\ Range(allocIn) = 0..k) => allocOut = k + 1

\* two equally wide gaps: the lower one is used
C2_Witness ==
    /\ allocPc = "out"
    /\ Range(allocIn) = {0, 2, 4, 6}
    /\ Len(allocIn) = 4
    /\ allocOut = 1

\* C15: whenever a value below the greatest existing identifier is unused
\* (the identifiers do not fill 0..max), closestMissing returns a value
\* below that greatest identifier rather than max + 1: after the record with
\* identifier 0 was deleted from {0, 1, 2} it does not return 3.
C15_FreedSpaceReused ==
    (/\ allocPc = "out"
     /\ allocIn # <<>>
     /\ Cardinality(Range(allocIn)) < RefMax(Range(allocIn)) + 1)
        => allocOut < RefMax(Range(allocIn))

====
